---------------------------- MODULE Spec2Model ----------------------------
(***************************************************************************)
(* Model of src/oi_pool/oi.py: a scheduler aligned to the 5-minute kline   *)
(* grid runs run_scan once per period; run_scan fetches the USDT perpetual *)
(* universe, fans out one open-interest fetch per symbol under a semaphore,*)
(* filters the results by THRESHOLD and publishes coin_pool / oi_top, which*)
(* two FastAPI handlers read.                                              *)
(*                                                                         *)
(* Everything runs on one asyncio event loop, so an action is one          *)
(* synchronous block between two awaits.  Times are whole seconds          *)
(* (sub-second resolution is not modelled).  A change in percent is kept   *)
(* as the exact fraction num/den instead of a float.                       *)
(***************************************************************************)
EXTENDS Integers, Sequences, FiniteSets

VARIABLES
    now,               \* the UTC wall clock, seconds (datetime.now / time.time)
    pc,                \* where the scheduler coroutine is suspended
    current_time,      \* align_to_kline_period: current_time (line 20)
    next_period_start, \* wait_for_next_kline_period: next_period_start (line 26)
    sleep_until,       \* the wall-clock instant asyncio.sleep(wait_seconds) ends
    start,             \* scheduler: start = time.time() (line 131); -1: unbound
    symbols,           \* run_scan: symbols (line 70)
    task,              \* run_scan: the state of each symbol's task (lines 78-82)
    data,              \* get_oi_change: data, per symbol, once fetched (line 55)
    results,           \* run_scan: results (line 84)
    sem,               \* run_scan: the value of sem (line 75)
    coin_pool,         \* line 14
    oi_top,            \* line 15
    out,               \* what the last step emitted: a log line, a request, a response
    n_tasks,           \* fan-out by counts: tasks created by the running scan
    n_waiting,         \* fan-out by counts: tasks waiting in "async with sem"
    n_inflight         \* fan-out by counts: tasks inside get_oi_change

vars == <<now, pc, current_time, next_period_start, sleep_until, start, symbols,
          task, data, results, sem, coin_pool, oi_top, out,
          n_tasks, n_waiting, n_inflight>>

schedVars == <<pc, current_time, next_period_start, sleep_until, start>>
scanVars  == <<symbols, task, data, results, sem>>
poolVars  == <<coin_pool, oi_top>>
fanVars   == <<n_tasks, n_waiting, n_inflight>>

----------------------------------------------------------------------------
(* Program constants *)

THRESHOLD == 8
CONCURRENCY == 20
aggregation_interval == 5

(* Bounds of the model *)

\* the clock starts here (00:52:30) and advances in steps of TickSeconds
StartTime == 3150
TickSeconds == 150
\* the clock stops at MaxTime (01:07:30)
MaxTime == 4050
\* the largest universe of the fan-out by counts
MaxSymbols == 22
\* the alignment alone is followed from every second up to MaxReading
\* (01:05:00) and of the DayEndWindow seconds around the next midnight
MaxReading == 3900
DayEndWindow == 600

Abs(x) == IF x < 0 THEN -x ELSE x

----------------------------------------------------------------------------
(* datetime / timedelta *)

\* datetime.now(timezone.utc): the broken-down fields of the clock reading t
DateTimeNow(t) ==
    [day    |-> t \div 86400,
     hour   |-> (t \div 3600) % 24,
     minute |-> (t \div 60) % 60,
     second |-> t % 60]

\* the instant a datetime denotes, in seconds
Timestamp(dt) == ((dt.day * 24 + dt.hour) * 60 + dt.minute) * 60 + dt.second

\* datetime + timedelta(minutes=m): the sum is normalised into the fields
PlusMinutes(dt, m) == DateTimeNow(Timestamp(dt) + m * 60)

\* a faulty variant: the seconds of the reading are kept
AlignedKeepSeconds(ct) ==
    [ct EXCEPT !.minute = (ct.minute \div aggregation_interval) * aggregation_interval]

\* align_to_kline_period, lines 21-22, on the reading ct
AlignedTime(ct) ==
    [ct EXCEPT !.minute = (ct.minute \div aggregation_interval) * aggregation_interval,
               !.second = 0]

\* the value before any reading
NoTime == [day |-> 0, hour |-> 0, minute |-> 0, second |-> 0]

----------------------------------------------------------------------------
(* The exchange's answers *)

Symbols == {"A", "B", "C"}

Item(sym, ct, qa, st) ==
    [symbol |-> sym, contractType |-> ct, quoteAsset |-> qa, status |-> st]

Perp(sym) == Item(sym, "PERPETUAL", "USDT", "TRADING")

\* fetch_json of exchangeInfo: None, an error object, or a catalog
CatalogResponses ==
    { [truthy |-> FALSE, has_symbols |-> FALSE, symbols |-> <<>>],
      [truthy |-> TRUE,  has_symbols |-> FALSE, symbols |-> <<>>],
      [truthy |-> TRUE,  has_symbols |-> TRUE,
       symbols |-> <<Perp("A"), Perp("B"), Perp("C")>>],
      [truthy |-> TRUE,  has_symbols |-> TRUE,
       symbols |-> <<Perp("A"), Item("B", "PERPETUAL", "USDT", "SETTLING"), Perp("C")>>],
      [truthy |-> TRUE,  has_symbols |-> TRUE,
       symbols |-> <<Item("A", "CURRENT_QUARTER", "USDT", "TRADING"),
                     Item("B", "PERPETUAL", "USDC", "TRADING"),
                     Item("C", "PERPETUAL", "USDT", "BREAK")>>] }

IsUsdtPerp(item) ==
    /\ item.contractType = "PERPETUAL"
    /\ item.quoteAsset = "USDT"
    /\ item.status = "TRADING"

\* get_usdtm_symbols, lines 42-50, on the answer d of fetch_json
GetUsdtmSymbols(d) ==
    IF ~d.truthy \/ ~d.has_symbols
    THEN <<>>
    ELSE LET kept == SelectSeq(d.symbols, IsUsdtPerp)
         IN  [i \in 1..Len(kept) |-> kept[i].symbol]

\* one point of an open-interest series: a numeric sumOpenInterestValue, or
\* one float() rejects
Num(v) == [num |-> TRUE, val |-> v]
Bad == [num |-> FALSE, val |-> 0]

Hist(old, new) == [is_list |-> TRUE, items |-> <<Num(old), Num(new)>>]
NoData == [is_list |-> FALSE, items |-> <<>>]
ShortSeries == [is_list |-> TRUE, items |-> <<Num(100)>>]
Unparsable == [is_list |-> TRUE, items |-> <<Bad, Num(100)>>]

\* fetch_json of openInterestHist for symbol s: what the exchange may answer
OIResponsesFor(s) ==
    CASE s = "A" -> {Hist(100, 109), Hist(100, 108), NoData}
      [] s = "B" -> {Hist(100, 107), Hist(100, 92), Hist(0, 5), NoData}
      [] OTHER   -> {Hist(50, 44), ShortSeries, Unparsable}

----------------------------------------------------------------------------
(* get_oi_change and the ranking *)

\* None, and a value that is not None
None == <<>>
Some(x) == <<x>>

\* the change in percent (oi_now - oi_old) / oi_old * 100, as a fraction
Change(oi_old, oi_now) == [num |-> (oi_now - oi_old) * 100, den |-> oi_old]

\* abs(chg) >= k, for a fraction chg
AbsAtLeast(chg, k) == Abs(chg.num) >= k * Abs(chg.den)

\* abs(c1) > abs(c2), for fractions
AbsGreater(c1, c2) == Abs(c1.num) * Abs(c2.den) > Abs(c2.num) * Abs(c1.den)

\* a faulty variant: a zero prior value raises nothing and the quotient is kept
GetOiChangeNoZeroCheck(symbol, d) ==
    IF ~d.is_list \/ Len(d.items) < 2
    THEN None
    ELSE IF ~d.items[1].num \/ ~d.items[2].num
         THEN None
         ELSE Some([sym |-> symbol,
                    chg |-> Change(d.items[1].val, d.items[2].val),
                    oi  |-> d.items[2].val])

\* get_oi_change, lines 56-64, on the answer d of fetch_json: float() raises on
\* a value that is no number, the division raises on a zero oi_old, and the
\* bare except turns both into None
GetOiChange(symbol, d) ==
    IF ~d.is_list \/ Len(d.items) < 2
    THEN None
    ELSE IF ~d.items[1].num \/ ~d.items[2].num
         THEN None
         ELSE IF d.items[1].val = 0
              THEN None
              ELSE Some([sym |-> symbol,
                         chg |-> Change(d.items[1].val, d.items[2].val),
                         oi  |-> d.items[2].val])

\* a faulty variant: a change counts only when it exceeds the threshold
IsSpikeStrict(r) == Abs(r.chg.num) > THRESHOLD * Abs(r.chg.den)

\* line 90: abs(r[1]) >= THRESHOLD
IsSpike(r) == AbsAtLeast(r.chg, THRESHOLD)

\* a faulty variant: nothing is filtered
SpikesAll(rs) == rs

\* line 90: the results with abs(chg) >= THRESHOLD, in the order of results
Spikes(rs) == SelectSeq(rs, IsSpike)

\* a faulty variant: the ranking without reverse=True
InsertAscending(s, x) ==
    LET before == {i \in 1..Len(s) : ~AbsGreater(s[i].chg, x.chg)}
        k == IF before = {} THEN 0
             ELSE CHOOSE i \in before : \A j \in before : j <= i
    IN  SubSeq(s, 1, k) \o <<x>> \o SubSeq(s, k + 1, Len(s))

\* a faulty variant: x goes in front of the entries of equal abs(chg), as in a
\* reversed ascending sort
InsertBeforeTies(s, x) ==
    LET before == {i \in 1..Len(s) : AbsGreater(s[i].chg, x.chg)}
        k == IF before = {} THEN 0
             ELSE CHOOSE i \in before : \A j \in before : j <= i
    IN  SubSeq(s, 1, k) \o <<x>> \o SubSeq(s, k + 1, Len(s))

\* x put into the ranked list s behind every entry whose abs(chg) is not smaller
InsertRanked(s, x) ==
    LET before == {i \in 1..Len(s) : ~AbsGreater(x.chg, s[i].chg)}
        k == IF before = {} THEN 0
             ELSE CHOOSE i \in before : \A j \in before : j <= i
    IN  SubSeq(s, 1, k) \o <<x>> \o SubSeq(s, k + 1, Len(s))

RECURSIVE SortedDesc(_)
\* line 99: sorted(spikes, key=lambda x: abs(x[1]), reverse=True), which keeps
\* entries of equal key in their order
SortedDesc(s) ==
    IF s = <<>> THEN <<>>
    ELSE InsertRanked(SortedDesc(SubSeq(s, 1, Len(s) - 1)), s[Len(s)])

\* [sym for sym, chg, oi in s]
SymsOf(s) == [i \in 1..Len(s) |-> s[i].sym]

----------------------------------------------------------------------------
(* What a step emits *)

NoOutput == [kind |-> "none"]
Log(m) == [kind |-> "log", msg |-> m]
Request(path, sym) == [kind |-> "GET", url |-> path, symbol |-> sym]

\* the summary of lines 115-125: the number of symbols scanned and the spikes
\* with their change and open interest (none: the lines 101 and 119)
ScanLog(n, spikes) == [kind |-> "log", msg |-> "scan", scanned |-> n, spikes |-> spikes]

\* the body of get_coin_pool's answer, lines 139-145
CoinPoolResponse ==
    [kind    |-> "response",
     path    |-> "/coinpool",
     success |-> TRUE,
     coins   |-> [i \in 1..Len(coin_pool) |-> [pair |-> coin_pool[i]]],
     count   |-> Len(coin_pool)]

\* the body of get_oi_top's answer, lines 149-157
OiTopResponse ==
    [kind       |-> "response",
     path       |-> "/oitop",
     success    |-> TRUE,
     positions  |-> [i \in 1..Len(oi_top) |-> [symbol |-> oi_top[i]]],
     count      |-> Len(oi_top),
     exchange   |-> "binance",
     time_range |-> "5m"]

----------------------------------------------------------------------------
(* The state after the module is loaded and the scheduler task is created *)

EmptyMap == [s \in {} |-> 0]
Range(f) == {f[i] : i \in DOMAIN f}

\* everything but the clock
InitProgram ==
    /\ pc = "align"
    /\ current_time = NoTime
    /\ next_period_start = NoTime
    /\ sleep_until = 0
    /\ start = -1
    /\ symbols = <<>>
    /\ task = EmptyMap
    /\ data = EmptyMap
    /\ results = <<>>
    /\ sem = CONCURRENCY
    /\ coin_pool = <<>>
    /\ oi_top = <<>>
    /\ out = NoOutput
    /\ n_tasks = 0
    /\ n_waiting = 0
    /\ n_inflight = 0

Init ==
    /\ now = StartTime
    /\ InitProgram

----------------------------------------------------------------------------
(* The clock *)

Tick ==
    /\ now + TickSeconds <= MaxTime
    /\ now' = now + TickSeconds
    /\ UNCHANGED <<schedVars, scanVars, poolVars, out, fanVars>>

----------------------------------------------------------------------------
(* scheduler and wait_for_next_kline_period *)

\* wait_for_next_kline_period returns (its locals are gone); scheduler, lines
\* 130-132, and run_scan up to its first await (lines 69-70, 40-41, 34): the
\* start time is taken and the catalog is requested
BeginScan ==
    /\ start' = now
    /\ pc' = "get_symbols"
    /\ current_time' = NoTime
    /\ next_period_start' = NoTime
    /\ sleep_until' = 0
    /\ out' = Request("exchangeInfo", "")

\* a faulty variant: the scheduler scans before it aligns
ScanBeforeAlign ==
    /\ pc = "align"
    /\ BeginScan
    /\ UNCHANGED <<now, scanVars, poolVars, fanVars>>

\* lines 129, 25-26 (20-22): the clock is read and the next boundary computed
AlignToKlinePeriod ==
    /\ pc = "align"
    /\ current_time' = DateTimeNow(now)
    /\ next_period_start' =
           PlusMinutes(AlignedTime(DateTimeNow(now)), aggregation_interval)
    /\ pc' = "wait"
    /\ out' = NoOutput
    /\ UNCHANGED <<now, sleep_until, start, scanVars, poolVars, fanVars>>

\* lines 27-30: the clock is read again; a positive wait sleeps, another one
\* goes on to the scan at once
WaitForNextKlinePeriod ==
    /\ pc = "wait"
    /\ LET wait_seconds == Timestamp(next_period_start) - now
       IN  IF wait_seconds > 0
           THEN /\ sleep_until' = now + wait_seconds
                /\ pc' = "sleep"
                /\ out' = Log("wait")
                /\ UNCHANGED <<start, current_time, next_period_start>>
           ELSE BeginScan
    /\ UNCHANGED <<now, scanVars, poolVars, fanVars>>

\* a faulty variant: the sleep returns at once
WakeAtOnce ==
    /\ pc = "sleep"
    /\ BeginScan
    /\ UNCHANGED <<now, scanVars, poolVars, fanVars>>

\* line 30 returns: asyncio.sleep ends no earlier than asked
Wake ==
    /\ pc = "sleep"
    /\ now >= sleep_until
    /\ BeginScan
    /\ UNCHANGED <<now, scanVars, poolVars, fanVars>>

----------------------------------------------------------------------------
(* run_scan *)

\* run_scan returns to scheduler (line 133), which loops to line 129; the
\* locals of run_scan are gone
ReturnToScheduler ==
    /\ pc' = "align"
    /\ symbols' = <<>>
    /\ task' = EmptyMap
    /\ data' = EmptyMap
    /\ results' = <<>>
    /\ sem' = CONCURRENCY

\* a faulty variant: the scheduler starts the scan as a task of its own and
\* goes on to align without awaiting it
RunScanDetached ==
    /\ pc = "get_symbols"
    /\ \E d \in CatalogResponses :
          IF GetUsdtmSymbols(d) = <<>>
          THEN /\ out' = Log("no_symbols")
               /\ ReturnToScheduler
          ELSE /\ symbols' = GetUsdtmSymbols(d)
               /\ sem' = CONCURRENCY
               /\ task' = [s \in Range(GetUsdtmSymbols(d)) |-> "waiting"]
               /\ data' = EmptyMap
               /\ results' = <<>>
               /\ pc' = "align"
               /\ out' = NoOutput
    /\ UNCHANGED <<now, current_time, next_period_start, sleep_until, start,
                   poolVars, fanVars>>

\* a faulty variant: an empty universe is scanned like any other
RunScanNoAbort ==
    /\ pc = "get_symbols"
    /\ \E d \in CatalogResponses :
          /\ symbols' = GetUsdtmSymbols(d)
          /\ sem' = CONCURRENCY
          /\ task' = [s \in Range(GetUsdtmSymbols(d)) |-> "waiting"]
          /\ data' = EmptyMap
          /\ results' = <<>>
          /\ pc' = IF GetUsdtmSymbols(d) = <<>> THEN "aggregate" ELSE "fanout"
          /\ out' = NoOutput
    /\ UNCHANGED <<now, current_time, next_period_start, sleep_until, start,
                   poolVars, fanVars>>

\* lines 70-84: the catalog answers; an empty universe ends the scan, another
\* one creates the semaphore and one task per symbol
RunScan ==
    /\ pc = "get_symbols"
    /\ \E d \in CatalogResponses :
          IF GetUsdtmSymbols(d) = <<>>
          THEN /\ out' = Log("no_symbols")
               /\ ReturnToScheduler
          ELSE /\ symbols' = GetUsdtmSymbols(d)
               /\ sem' = CONCURRENCY
               /\ task' = [s \in Range(GetUsdtmSymbols(d)) |-> "waiting"]
               /\ data' = EmptyMap
               /\ results' = <<>>
               /\ pc' = "fanout"
               /\ out' = NoOutput
    /\ UNCHANGED <<now, current_time, next_period_start, sleep_until, start,
                   poolVars, fanVars>>

\* a faulty variant: the task reads the loop variable when it runs, after the
\* loop has left it at the last symbol
AcquireLateBinding(s) ==
    /\ pc = "fanout"
    /\ s \in DOMAIN task
    /\ task[s] = "waiting"
    /\ sem > 0
    /\ sem' = sem - 1
    /\ task' = [task EXCEPT ![s] = "holding"]
    /\ out' = Request("openInterestHist", symbols[Len(symbols)])
    /\ UNCHANGED <<now, schedVars, symbols, data, results, poolVars, fanVars>>

\* line 80: the task of symbol s enters "async with sem" and, lines 81, 53-55,
\* 34, requests its open-interest series
Acquire(s) ==
    /\ pc = "fanout"
    /\ s \in DOMAIN task
    /\ task[s] = "waiting"
    /\ sem > 0
    /\ sem' = sem - 1
    /\ task' = [task EXCEPT ![s] = "holding"]
    /\ out' = Request("openInterestHist", s)
    /\ UNCHANGED <<now, schedVars, symbols, data, results, poolVars, fanVars>>

\* a faulty variant: the results are collected in the order of the catalog,
\* as by asyncio.gather
FetchDoneInOrder(s) ==
    /\ pc = "fanout"
    /\ s \in DOMAIN task
    /\ task[s] = "holding"
    /\ \A i, j \in 1..Len(symbols) :
          (i < j /\ symbols[j] = s) => task[symbols[i]] = "done"
    /\ \E d \in OIResponsesFor(s) :
          /\ data' = [x \in DOMAIN data \cup {s} |-> IF x = s THEN d ELSE data[x]]
          /\ results' = results \o GetOiChange(s, d)
    /\ sem' = sem + 1
    /\ task' = [task EXCEPT ![s] = "done"]
    /\ pc' = IF \A x \in DOMAIN task \ {s} : task[x] = "done"
             THEN "aggregate" ELSE "fanout"
    /\ out' = NoOutput
    /\ UNCHANGED <<now, current_time, next_period_start, sleep_until, start,
                   symbols, poolVars, fanVars>>

\* a faulty variant: every spike is published as soon as its fetch completes
FetchDonePublishing(s) ==
    /\ pc = "fanout"
    /\ s \in DOMAIN task
    /\ task[s] = "holding"
    /\ \E d \in OIResponsesFor(s) :
          /\ data' = [x \in DOMAIN data \cup {s} |-> IF x = s THEN d ELSE data[x]]
          /\ results' = results \o GetOiChange(s, d)
          /\ coin_pool' = SymsOf(Spikes(results \o GetOiChange(s, d)))
          /\ oi_top' = SymsOf(SortedDesc(Spikes(results \o GetOiChange(s, d))))
    /\ sem' = sem + 1
    /\ task' = [task EXCEPT ![s] = "done"]
    /\ pc' = IF \A x \in DOMAIN task \ {s} : task[x] = "done"
             THEN "aggregate" ELSE "fanout"
    /\ out' = NoOutput
    /\ UNCHANGED <<now, current_time, next_period_start, sleep_until, start,
                   symbols, fanVars>>

\* a faulty variant: a fetch without a result ends the as_completed loop
FetchDoneAbortOnFailure(s) ==
    /\ pc = "fanout"
    /\ s \in DOMAIN task
    /\ task[s] = "holding"
    /\ \E d \in OIResponsesFor(s) :
          /\ data' = [x \in DOMAIN data \cup {s} |-> IF x = s THEN d ELSE data[x]]
          /\ results' = results \o GetOiChange(s, d)
          /\ pc' = IF \/ GetOiChange(s, d) = None
                      \/ \A x \in DOMAIN task \ {s} : task[x] = "done"
                   THEN "aggregate" ELSE "fanout"
    /\ sem' = sem + 1
    /\ task' = [task EXCEPT ![s] = "done"]
    /\ out' = NoOutput
    /\ UNCHANGED <<now, current_time, next_period_start, sleep_until, start,
                   symbols, poolVars, fanVars>>

\* lines 55-64 and 86-88: the series of s answers (or fails), the task leaves
\* the semaphore and ends, and the as_completed loop collects its result; after
\* the last task the loop ends
FetchDone(s) ==
    /\ pc = "fanout"
    /\ s \in DOMAIN task
    /\ task[s] = "holding"
    /\ \E d \in OIResponsesFor(s) :
          /\ data' = [x \in DOMAIN data \cup {s} |-> IF x = s THEN d ELSE data[x]]
          /\ results' = results \o GetOiChange(s, d)
    /\ sem' = sem + 1
    /\ task' = [task EXCEPT ![s] = "done"]
    /\ pc' = IF \A x \in DOMAIN task \ {s} : task[x] = "done"
             THEN "aggregate" ELSE "fanout"
    /\ out' = NoOutput
    /\ UNCHANGED <<now, current_time, next_period_start, sleep_until, start,
                   symbols, poolVars, fanVars>>

\* a faulty variant: lines 93-94, the publish without the "if spikes" of line 97
AggregateAlways ==
    /\ pc = "aggregate"
    /\ coin_pool' = SymsOf(Spikes(results))
    /\ oi_top' = SymsOf(SortedDesc(Spikes(results)))
    /\ out' = ScanLog(Len(symbols), Spikes(results))
    /\ ReturnToScheduler
    /\ UNCHANGED <<now, current_time, next_period_start, sleep_until, start, fanVars>>

\* a faulty variant: the handlers run between line 98 and line 99
AggregateTorn ==
    /\ pc = "aggregate"
    /\ IF Spikes(results) # <<>>
       THEN /\ coin_pool' = SymsOf(Spikes(results))
            /\ UNCHANGED oi_top
       ELSE UNCHANGED poolVars
    /\ out' = ScanLog(Len(symbols), Spikes(results))
    /\ ReturnToScheduler
    /\ UNCHANGED <<now, current_time, next_period_start, sleep_until, start, fanVars>>

\* lines 90-125: the spikes are filtered and, if there are any, published
Aggregate ==
    /\ pc = "aggregate"
    /\ IF Spikes(results) # <<>>
       THEN /\ coin_pool' = SymsOf(Spikes(results))
            /\ oi_top' = SymsOf(SortedDesc(Spikes(results)))
       ELSE UNCHANGED poolVars
    /\ out' = ScanLog(Len(symbols), Spikes(results))
    /\ ReturnToScheduler
    /\ UNCHANGED <<now, current_time, next_period_start, sleep_until, start, fanVars>>

----------------------------------------------------------------------------
(* The query handlers *)

\* a faulty variant: the handler waits for a running scan
GetCoinPoolAfterScan ==
    /\ pc \notin {"get_symbols", "fanout", "aggregate"}
    /\ out' = CoinPoolResponse
    /\ UNCHANGED <<now, schedVars, scanVars, poolVars, fanVars>>

\* get_coin_pool, lines 137-145
GetCoinPool ==
    /\ out' = CoinPoolResponse
    /\ UNCHANGED <<now, schedVars, scanVars, poolVars, fanVars>>

\* get_oi_top, lines 147-157
GetOiTop ==
    /\ out' = OiTopResponse
    /\ UNCHANGED <<now, schedVars, scanVars, poolVars, fanVars>>

----------------------------------------------------------------------------

Next ==
    \/ Tick
    \/ AlignToKlinePeriod
    \/ WaitForNextKlinePeriod
    \/ Wake
    \/ RunScan
    \/ \E s \in Symbols : Acquire(s)
    \/ \E s \in Symbols : FetchDone(s)
    \/ Aggregate
    \/ GetCoinPool
    \/ GetOiTop

Spec == Init /\ [][Next]_vars

----------------------------------------------------------------------------
(* The fan-out of run_scan by counts: the tasks of a scan differ only in   *)
(* their symbol, so a universe larger than CONCURRENCY is followed by the  *)
(* number of tasks waiting for the semaphore and the number holding it.    *)

\* lines 75-82: a scan over n symbols creates the semaphore and n tasks
FanStart ==
    /\ n_waiting = 0
    /\ n_inflight = 0
    /\ \E n \in 1..MaxSymbols :
          /\ n_tasks' = n
          /\ n_waiting' = n
    /\ n_inflight' = 0
    /\ sem' = CONCURRENCY
    /\ UNCHANGED <<now, schedVars, symbols, task, data, results, poolVars, out>>

\* a faulty variant: a task does not wait for a free slot
FanAcquireUnguarded ==
    /\ n_waiting > 0
    /\ sem' = sem - 1
    /\ n_waiting' = n_waiting - 1
    /\ n_inflight' = n_inflight + 1
    /\ UNCHANGED <<now, schedVars, symbols, task, data, results, poolVars, out, n_tasks>>

\* line 80: a waiting task enters "async with sem" when the value is positive
FanAcquire ==
    /\ n_waiting > 0
    /\ sem > 0
    /\ sem' = sem - 1
    /\ n_waiting' = n_waiting - 1
    /\ n_inflight' = n_inflight + 1
    /\ UNCHANGED <<now, schedVars, symbols, task, data, results, poolVars, out, n_tasks>>

\* a faulty variant: a task that ends does not give its slot back
FanReleaseLeak ==
    /\ n_inflight > 0
    /\ n_inflight' = n_inflight - 1
    /\ UNCHANGED <<now, schedVars, symbols, task, data, results, sem, poolVars,
                   out, n_tasks, n_waiting>>

\* lines 80-81: get_oi_change returns and the task leaves "async with sem"
FanRelease ==
    /\ n_inflight > 0
    /\ sem' = sem + 1
    /\ n_inflight' = n_inflight - 1
    /\ UNCHANGED <<now, schedVars, symbols, task, data, results, poolVars, out,
                   n_tasks, n_waiting>>

----------------------------------------------------------------------------
(* The alignment alone: one pass through wait_for_next_kline_period from a *)
(* process started at any second of the readings.                          *)

Readings == (0..MaxReading) \cup ((86400 - DayEndWindow)..(86400 + DayEndWindow))

InitAlign ==
    /\ now \in Readings
    /\ InitProgram

NextAlign ==
    \/ AlignToKlinePeriod
    \/ WaitForNextKlinePeriod

SpecAlign == InitAlign /\ [][NextAlign]_vars

----------------------------------------------------------------------------

NextFanout ==
    \/ FanStart
    \/ FanAcquire
    \/ FanRelease

SpecFanout == Init /\ [][NextFanout]_vars

----------------------------------------------------------------------------
(* The scheduler with the fan-out by counts: the whole cycle for universes *)
(* larger than CONCURRENCY, under the scheduling of the event loop.        *)

\* lines 70-82 by counts: the catalog answers with n symbols; none ends the
\* scan, another number creates the semaphore and n tasks
FanRunScan ==
    /\ pc = "get_symbols"
    /\ \E n \in 0..MaxSymbols :
          IF n = 0
          THEN /\ out' = Log("no_symbols")
               /\ ReturnToScheduler
               /\ UNCHANGED fanVars
          ELSE /\ n_tasks' = n
               /\ n_waiting' = n
               /\ n_inflight' = 0
               /\ sem' = CONCURRENCY
               /\ pc' = "fanout"
               /\ out' = NoOutput
               /\ UNCHANGED <<symbols, task, data, results>>
    /\ UNCHANGED <<now, current_time, next_period_start, sleep_until, start,
                   poolVars>>

\* lines 84-125 by counts: the last task has ended, the as_completed loop
\* ends, and run_scan filters, logs and returns
FanAggregate ==
    /\ pc = "fanout"
    /\ n_tasks > 0
    /\ n_waiting = 0
    /\ n_inflight = 0
    /\ out' = Log("scan")
    /\ ReturnToScheduler
    /\ n_tasks' = 0
    /\ UNCHANGED <<now, current_time, next_period_start, sleep_until, start,
                   poolVars, n_waiting, n_inflight>>

NextLive ==
    \/ Tick
    \/ AlignToKlinePeriod
    \/ WaitForNextKlinePeriod
    \/ Wake
    \/ FanRunScan
    \/ FanAcquire
    \/ FanRelease
    \/ FanAggregate

\* time passes; the event loop runs every coroutine that is ready (lines 129
\* and 25-30, the wake-up of line 30, the end of the loop of line 84); the
\* catalog request and every fetch return or time out (line 34, timeout=10);
\* the semaphore admits a waiting task when a slot is free (line 80)
Fairness ==
    /\ WF_vars(Tick)
    /\ WF_vars(AlignToKlinePeriod)
    /\ WF_vars(WaitForNextKlinePeriod)
    /\ WF_vars(Wake)
    /\ WF_vars(FanRunScan)
    /\ WF_vars(FanAcquire)
    /\ WF_vars(FanRelease)
    /\ WF_vars(FanAggregate)

SpecLive == Init /\ [][NextLive]_vars /\ Fairness

----------------------------------------------------------------------------
(* Notions the properties are stated in *)

ScanPcs == {"get_symbols", "fanout", "aggregate"}

\* the period of the kline grid, in seconds
Period == aggregation_interval * 60

\* the smallest instant of the grid strictly after t
NextBoundaryAfter(t) == CHOOSE b \in (t + 1)..(t + Period) : b % Period = 0

Count(q, x) == Cardinality({i \in DOMAIN q : q[i] = x})

IsPermutation(a, b) ==
    /\ Len(a) = Len(b)
    /\ \A x \in Range(a) \cup Range(b) : Count(a, x) = Count(b, x)

\* a series with two numeric values and a prior value other than zero
Valid(d) ==
    /\ d.is_list
    /\ Len(d.items) >= 2
    /\ d.items[1].num
    /\ d.items[2].num
    /\ d.items[1].val # 0

\* a series with a zero prior value, fewer than two points, or a value that
\* is no number
Degenerate(d) == d.is_list /\ ~Valid(d)

\* abs((new - old) / old * 100) >= THRESHOLD
Qualifies(d) ==
    /\ Valid(d)
    /\ Abs(d.items[2].val - d.items[1].val) * 100 >= THRESHOLD * Abs(d.items[1].val)

Qualifying == {s \in DOMAIN data : Qualifies(data[s])}

PoolsChange == coin_pool' # coin_pool \/ oi_top' # oi_top

\* the step in which run_scan ends its aggregation
AggregateStep == pc = "aggregate" /\ pc' # "aggregate"

\* the change of symbol x among the results of the running scan
ChangeOf(x) == (CHOOSE r \in Range(results) : r.sym = x).chg

----------------------------------------------------------------------------
(* Properties *)

\* C1: while a scan runs, every step leaves coin_pool and oi_top as they are,
\* except a final step of a scan with a result of abs(change) >= THRESHOLD:
\* a scan without such a result (all fetches failed included) ends with both
\* lists as they were before it.
C1_RetainPrevious ==
    [][ ( /\ pc \in ScanPcs
          /\ \/ pc' \in ScanPcs
             \/ \A i \in 1..Len(results) : ~AbsAtLeast(results[i].chg, THRESHOLD) )
        => UNCHANGED <<coin_pool, oi_top>> ]_vars

\* a scan without a spike has just ended over a published state that is not empty
C1_Witness ==
    /\ pc = "align"
    /\ out.kind = "log"
    /\ out.msg = "scan"
    /\ out.spikes = <<>>
    /\ out.scanned = 3
    /\ coin_pool # <<>>

\* C2: every step that changes coin_pool or oi_top is the publish of one scan
\* and installs both lists of that scan at once, so a handler, which runs
\* between two steps, sees the pair of the previous publish or the pair of the
\* new one.
C2_AtomicPublish ==
    [][ PoolsChange =>
          /\ pc = "aggregate"
          /\ coin_pool' = SymsOf(Spikes(results))
          /\ oi_top' = SymsOf(SortedDesc(Spikes(results))) ]_vars

\* get_oi_top has answered from the previous pair while a scan is about to
\* publish another pair
C2_Witness ==
    /\ pc = "aggregate"
    /\ out = OiTopResponse
    /\ coin_pool # <<>>
    /\ Spikes(results) # <<>>
    /\ Range(SymsOf(Spikes(results))) # Range(coin_pool)

\* C3: oi_top is always a permutation of coin_pool, and a step that changes
\* them leaves oi_top in the order of non-increasing abs(change), by the
\* changes of the scan that publishes.
C3_RankedPermutation ==
    /\ [] IsPermutation(oi_top, coin_pool)
    /\ [][ PoolsChange =>
             \A i, j \in 1..Len(oi_top') :
                 i < j => ~AbsGreater(ChangeOf(oi_top'[j]), ChangeOf(oi_top'[i])) ]_vars

\* three spikes are published and the ranking differs from the pool's order
C3_Witness ==
    /\ out.kind = "log"
    /\ out.msg = "scan"
    /\ Len(out.spikes) = 3
    /\ Len(oi_top) = 3
    /\ oi_top # coin_pool

\* C4: at most CONCURRENCY tasks are inside get_oi_change, and with CONCURRENCY
\* of them inside no waiting task can enter.
C4_ConcurrencyCap ==
    /\ n_inflight <= CONCURRENCY
    /\ n_inflight = CONCURRENCY => ~ENABLED FanAcquire

\* the cap is reached with tasks still waiting
C4_Witness ==
    /\ n_tasks > CONCURRENCY
    /\ n_inflight = CONCURRENCY
    /\ n_waiting > 0

\* C5: next_period_start is on the grid, strictly after the reading
\* current_time, and no instant of the grid lies between the two.
C5_NextBoundary ==
    pc \in {"wait", "sleep"} =>
        LET t == Timestamp(current_time)
            n == Timestamp(next_period_start)
        IN  /\ n % Period = 0
            /\ next_period_start.minute % aggregation_interval = 0
            /\ next_period_start.second = 0
            /\ n > t
            /\ \A b \in (t + 1)..(n - 1) : b % Period # 0

\* the reading 00:55:00, on a boundary and with floor minute 55, gives 01:00:00
C5_Witness ==
    /\ pc = "wait"
    /\ current_time = [day |-> 0, hour |-> 0, minute |-> 55, second |-> 0]
    /\ next_period_start = [day |-> 0, hour |-> 1, minute |-> 0, second |-> 0]

\* C6: when get_usdtm_symbols returns an empty list, run_scan returns at once
\* with coin_pool and oi_top unchanged and no task created; an open-interest
\* request is only ever issued for a symbol of a universe that is not empty.
C6_EmptyUniverseAbort ==
    /\ [][ (pc = "get_symbols" /\ pc' # "get_symbols" /\ symbols' = <<>>) =>
             /\ pc' = "align"
             /\ UNCHANGED <<coin_pool, oi_top>>
             /\ task' = EmptyMap
             /\ out' = Log("no_symbols") ]_vars
    /\ [] ( (out.kind = "GET" /\ out.url = "openInterestHist")
              => (symbols # <<>> /\ out.symbol \in Range(symbols)) )

\* a scan has just been aborted over a published state that is not empty
C6_Witness ==
    /\ pc = "align"
    /\ out = Log("no_symbols")
    /\ coin_pool # <<>>

\* C7: a scan starts no earlier than the first boundary strictly after the
\* reading current_time, which is taken after the previous scan has started
\* and ended, and it starts in a later period than the previous scan.
C7_NoBacklog ==
    [][ (pc # "get_symbols" /\ pc' = "get_symbols") =>
          /\ start' >= NextBoundaryAfter(Timestamp(current_time))
          /\ start # -1 =>
                /\ Timestamp(current_time) >= start
                /\ start' \div Period > start \div Period ]_vars

\* a scan started at 00:55:00 has ended after 01:00:00, and the scheduler
\* sleeps until 01:05:00
C7_Witness ==
    /\ pc = "sleep"
    /\ start = 3300
    /\ Timestamp(current_time) >= 3600
    /\ sleep_until = 3900

\* C8: both handlers can run in every state, and a step that answers a query
\* answers success with the current list and its length and changes nothing
\* else: not the lists, not the scheduler, not the scan.
C8_PureReads ==
    /\ [] (ENABLED GetCoinPool /\ ENABLED GetOiTop)
    /\ [][ (out' # out /\ out'.kind = "response") =>
             /\ out'.success
             /\ out'.path = "/coinpool" =>
                   /\ out'.count = Len(coin_pool)
                   /\ out'.coins = [i \in 1..Len(coin_pool) |-> [pair |-> coin_pool[i]]]
             /\ out'.path = "/oitop" =>
                   /\ out'.count = Len(oi_top)
                   /\ out'.positions = [i \in 1..Len(oi_top) |-> [symbol |-> oi_top[i]]]
             /\ UNCHANGED <<now, schedVars, scanVars, poolVars>> ]_vars

\* get_coin_pool has answered from a published state while tasks are running
C8_Witness ==
    /\ pc = "fanout"
    /\ out = CoinPoolResponse
    /\ out.count > 0
    /\ \E s \in DOMAIN task : task[s] = "holding"

\* C9: the aggregation of a scan in which a symbol has abs(change) >=
\* THRESHOLD sets coin_pool to exactly the symbols of that scan with
\* abs(change) >= THRESHOLD, each once, and oi_top to a permutation of it; the
\* pairs A=(100,109), B=(100,100), C=(50,44) give oi_top = [C, A].
C9_PublishContent ==
    [][ (AggregateStep /\ Qualifying # {}) =>
          /\ Range(coin_pool') = Qualifying
          /\ Len(coin_pool') = Cardinality(Qualifying)
          /\ IsPermutation(oi_top', coin_pool')
          /\ ( /\ DOMAIN data = {"A", "B", "C"}
               /\ data["A"] = Hist(100, 109)
               /\ data["B"] = Hist(100, 107)
               /\ data["C"] = Hist(50, 44) )
             => /\ oi_top' = <<"C", "A">>
                /\ coin_pool' \in {<<"A", "C">>, <<"C", "A">>} ]_vars

\* the scan of the example has just published, A having completed before C
C9_Witness ==
    /\ out = ScanLog(3, << [sym |-> "A", chg |-> Change(100, 109), oi |-> 109],
                           [sym |-> "C", chg |-> Change(50, 44), oi |-> 44] >>)
    /\ coin_pool = <<"A", "C">>
    /\ oi_top = <<"C", "A">>

\* C10: a fetch that ends with a degenerate series adds nothing to results,
\* and a publish contains no symbol whose series was degenerate in that scan.
C10_DegenerateExcluded ==
    /\ [][ \A s \in Symbols :
             (s \in DOMAIN data' /\ s \notin DOMAIN data /\ Degenerate(data'[s]))
                 => results' = results ]_vars
    /\ [][ (AggregateStep /\ PoolsChange) =>
             \A s \in DOMAIN data :
                 Degenerate(data[s]) =>
                     s \notin Range(coin_pool') /\ s \notin Range(oi_top') ]_vars

\* B, published by an earlier scan, now has a zero prior value and C a value
\* that is no number; only A is among the results and it is a spike
C10_Witness ==
    /\ pc = "aggregate"
    /\ DOMAIN data = {"A", "B", "C"}
    /\ data["B"] = Hist(0, 5)
    /\ data["C"] = Unparsable
    /\ "B" \in Range(coin_pool)
    /\ SymsOf(Spikes(results)) = <<"A">>

\* C11: the results of a scan hold exactly one entry for each symbol fetched
\* so far whose series is valid and none for a symbol whose fetch failed or
\* whose series is degenerate, whatever the others did; every running fetch
\* can end, and when the loop has ended every symbol of the universe has
\* been fetched.
C11_FailureIsolation ==
    pc \in {"fanout", "aggregate"} =>
        /\ Range(SymsOf(results)) = {s \in DOMAIN data : Valid(data[s])}
        /\ Len(results) = Cardinality({s \in DOMAIN data : Valid(data[s])})
        /\ \A s \in DOMAIN task : task[s] = "holding" => ENABLED FetchDone(s)
        /\ pc = "aggregate" => DOMAIN data = Range(symbols)

\* the fetch of A failed first, the series of C was malformed, and the result
\* of B was still collected
C11_Witness ==
    /\ pc = "aggregate"
    /\ DOMAIN data = {"A", "B", "C"}
    /\ data["A"] = NoData
    /\ data["C"] = Unparsable
    /\ SymsOf(results) = <<"B">>
    /\ data["B"] = Hist(100, 92)

\* the phase of the cycle the scheduler is in: Idle between a scan and the
\* next alignment, Aligning in wait_for_next_kline_period, Scanning from the
\* catalog request to the last fetch, Aggregating in the filter and publish
Phase(p) ==
    CASE p = "align" -> "Idle"
      [] p \in {"wait", "sleep"} -> "Aligning"
      [] p \in {"get_symbols", "fanout"} -> "Scanning"
      [] p = "aggregate" -> "Aggregating"

PhaseTransitions ==
    { <<"Idle", "Aligning">>, <<"Aligning", "Scanning">>,
      <<"Scanning", "Aggregating">>, <<"Aggregating", "Idle">>,
      <<"Scanning", "Idle">> }

\* C12: the cycle moves only Idle -> Aligning -> Scanning -> Aggregating ->
\* Idle, and Scanning -> Idle directly exactly when the universe is empty;
\* Aggregating is never reached with an empty universe, and Scanning is
\* entered only from Aligning.
C12_CycleStateMachine ==
    [][ /\ Phase(pc') # Phase(pc) => <<Phase(pc), Phase(pc')>> \in PhaseTransitions
        /\ (Phase(pc) = "Scanning" /\ Phase(pc') = "Idle") =>
               (pc = "get_symbols" /\ symbols' = <<>> /\ task' = EmptyMap)
        /\ Phase(pc') = "Aggregating" => symbols' # <<>>
        /\ (Phase(pc') = "Scanning" /\ Phase(pc) # "Scanning") =>
               Phase(pc) = "Aligning"
        /\ (pc = "get_symbols" /\ pc' = "fanout") => symbols' # <<>> ]_vars

\* a second cycle has come to Aggregating after a first one published
C12_Witness ==
    /\ pc = "aggregate"
    /\ coin_pool # <<>>
    /\ start > StartTime + aggregation_interval * 60

\* C13: coin_pool and oi_top are written only by the step that ends a scan
\* whose results hold a spike, hence at most once in a cycle; from the start
\* of a scan until that step, and in every other step, both lists keep their
\* values.
C13_PublishOnlyInAggregation ==
    [][ /\ PoolsChange =>
               /\ pc = "aggregate"
               /\ pc' = "align"
               /\ \E i \in 1..Len(results) : IsSpike(results[i])
        /\ (pc \in {"align", "wait", "sleep", "get_symbols", "fanout"}) =>
               (coin_pool' = coin_pool /\ oi_top' = oi_top) ]_vars

\* fetches of a later scan have already brought a spike which the lists,
\* published by an earlier scan, do not hold
C13_Witness ==
    /\ pc = "fanout"
    /\ coin_pool # <<>>
    /\ \E i \in 1..Len(results) :
          /\ IsSpike(results[i])
          /\ results[i].sym \notin Range(coin_pool)
    /\ \E s \in DOMAIN task : task[s] = "holding"

\* abs(new - old) / abs(old) * 100 of a valid series compared with THRESHOLD
AtThreshold(d) ==
    Abs(d.items[2].val - d.items[1].val) * 100 = THRESHOLD * Abs(d.items[1].val)
BelowThreshold(d) ==
    Abs(d.items[2].val - d.items[1].val) * 100 < THRESHOLD * Abs(d.items[1].val)

\* C14: the threshold is inclusive. When a scan ends, a symbol whose change
\* is exactly THRESHOLD in absolute value, such as (100, 108) or (100, 92),
\* is among the spikes and in both published lists; one whose change is
\* strictly smaller is not among the spikes and not in the lists the scan
\* publishes.
C14_ThresholdInclusive ==
    [][ AggregateStep =>
          \A s \in DOMAIN data :
              Valid(data[s]) =>
                  /\ AtThreshold(data[s]) =>
                        /\ s \in Range(SymsOf(out'.spikes))
                        /\ s \in Range(coin_pool')
                        /\ s \in Range(oi_top')
                  /\ BelowThreshold(data[s]) =>
                        /\ s \notin Range(SymsOf(out'.spikes))
                        /\ PoolsChange =>
                              (s \notin Range(coin_pool') /\ s \notin Range(oi_top')) ]_vars

\* a scan has published A at exactly +8 percent and B at exactly -8 percent
C14_Witness ==
    /\ out.kind = "log"
    /\ out.msg = "scan"
    /\ out.scanned = 3
    /\ Len(out.spikes) = 2
    /\ \E i, j \in 1..2 :
          /\ out.spikes[i].sym = "A" /\ out.spikes[i].chg = Change(100, 108)
          /\ out.spikes[j].sym = "B" /\ out.spikes[j].chg = Change(100, 92)
    /\ Range(coin_pool) = {"A", "B"}
    /\ Range(oi_top) = {"A", "B"}

\* the place of symbol x in the list s
IndexOf(s, x) == CHOOSE i \in 1..Len(s) : s[i] = x

\* abs(c1) = abs(c2), for fractions
AbsEqual(c1, c2) == ~AbsGreater(c1, c2) /\ ~AbsGreater(c2, c1)

\* C15: two published symbols whose changes are equal in absolute value,
\* whatever their signs, stand in oi_top in the same relative order as in
\* coin_pool.
C15_StableTies ==
    [][ PoolsChange =>
          \A i, j \in 1..Len(coin_pool') :
              (i < j /\ AbsEqual(ChangeOf(coin_pool'[i]), ChangeOf(coin_pool'[j]))) =>
                  IndexOf(oi_top', coin_pool'[i]) < IndexOf(oi_top', coin_pool'[j]) ]_vars

\* B at -8 percent completed before A at +8 percent and C at -12 percent
\* last: the tie keeps B before A behind C
C15_Witness ==
    /\ out.kind = "log"
    /\ out.msg = "scan"
    /\ coin_pool = <<"B", "A", "C">>
    /\ oi_top = <<"C", "B", "A">>
    /\ out.spikes[1].chg = Change(100, 92)
    /\ out.spikes[2].chg = Change(100, 108)

\* the fetch of s completes with a result, which is collected behind the
\* results collected before
CompletesNext(s) ==
    /\ FetchDone(s)
    /\ Len(results') = Len(results) + 1
    /\ SubSeq(results', 1, Len(results)) = results
    /\ results'[Len(results')].sym = s

\* C16: results are collected in the order in which the fetches complete, and
\* coin_pool is published in that order, not in the order of the catalog:
\* whichever fetch is running may complete next and is then collected behind
\* the earlier ones, whichever task waits may take a free slot next, and the
\* published coin_pool lists the spikes in the order of the results. Hence
\* every order of the spike symbols can be published.
C16_CompletionOrder ==
    /\ [](pc = "fanout" =>
            \A s \in DOMAIN task :
                /\ task[s] = "holding" => ENABLED CompletesNext(s)
                /\ (task[s] = "waiting" /\ sem > 0) => ENABLED Acquire(s))
    /\ [][ /\ \A s \in DOMAIN task :
                (task[s] = "holding" /\ s \in DOMAIN task' /\ task'[s] = "done") =>
                    \/ results' = results
                    \/ CompletesNext(s)
           /\ PoolsChange => coin_pool' = SymsOf(SelectSeq(results, IsSpike)) ]_vars

\* the three symbols, listed A, B, C by the catalog, published in the order
\* C, B, A
C16_Witness ==
    /\ out.kind = "log"
    /\ out.msg = "scan"
    /\ out.scanned = 3
    /\ coin_pool = <<"C", "B", "A">>

\* the step emits a request for an open-interest series
OiRequested == out' # out /\ out'.kind = "GET" /\ out'.url = "openInterestHist"

\* C18: in a scan every symbol of the universe is fetched exactly once. A
\* request for a series is sent only by the task of that symbol, in the step
\* in which it takes its slot; the task of s requests s; a task that has sent
\* its request never goes back to waiting, whether its fetch failed or not;
\* and when the loop has ended the task of every symbol, each listed once,
\* has fetched and ended.
C18_OneFetchPerSymbol ==
    /\ [][ /\ OiRequested =>
                /\ out'.symbol \in DOMAIN task
                /\ task[out'.symbol] = "waiting"
                /\ task'[out'.symbol] = "holding"
           /\ \A s \in DOMAIN task :
                /\ (task[s] = "waiting" /\ s \in DOMAIN task' /\ task'[s] # "waiting") =>
                       (task'[s] = "holding" /\ out' = Request("openInterestHist", s))
                /\ (task[s] = "holding" /\ s \in DOMAIN task') =>
                       task'[s] \in {"holding", "done"}
                /\ (task[s] = "done" /\ s \in DOMAIN task') => task'[s] = "done"
           /\ (pc = "fanout" /\ pc' = "fanout") => DOMAIN task' = DOMAIN task ]_vars
    /\ [](pc \in {"fanout", "aggregate"} =>
            /\ DOMAIN task = Range(symbols)
            /\ Cardinality(Range(symbols)) = Len(symbols)
            /\ DOMAIN data = {s \in DOMAIN task : task[s] = "done"}
            /\ pc = "aggregate" => \A s \in DOMAIN task : task[s] = "done")

\* every symbol has been fetched, the fetch of A failed and was not repeated
C18_Witness ==
    /\ pc = "aggregate"
    /\ DOMAIN task = {"A", "B", "C"}
    /\ \A s \in DOMAIN task : task[s] = "done"
    /\ data["A"] = NoData
    /\ Len(results) = 2

\* nothing of a scan is alive: no universe, no task, no result, no slot held
NoScanAlive ==
    /\ symbols = <<>>
    /\ task = EmptyMap
    /\ data = EmptyMap
    /\ results = <<>>
    /\ sem = CONCURRENCY

\* C19: scans never overlap. While the one scheduler aligns or sleeps nothing
\* of a scan is alive, a scan begins only then, and a step that publishes
\* belongs to the one running scan, all of whose tasks have ended, and
\* returns to the scheduler in the same step.
C19_NoOverlap ==
    /\ [](pc \in {"align", "wait", "sleep", "get_symbols"} => NoScanAlive)
    /\ [][ /\ (pc' = "get_symbols" /\ pc # "get_symbols") =>
                (pc \in {"wait", "sleep"} /\ NoScanAlive)
           /\ PoolsChange =>
                /\ pc = "aggregate"
                /\ \A s \in DOMAIN task : task[s] = "done"
                /\ sem = CONCURRENCY
                /\ pc' = "align" ]_vars

\* a later scan is in progress with all its fetches running, after an earlier
\* scan has published
C19_Witness ==
    /\ pc = "fanout"
    /\ Len(symbols) = 3
    /\ \A s \in DOMAIN task : task[s] = "holding"
    /\ coin_pool # <<>>
    /\ sem = CONCURRENCY - 3

\* C20: emptiness is monotone. Both lists start empty and are empty together;
\* an empty coin_pool becomes non-empty exactly in the step that ends a scan
\* whose results hold a spike; and a list that is not empty is never empty
\* again.
C20_EmptinessMonotone ==
    /\ coin_pool = <<>> /\ oi_top = <<>>
    /\ [](coin_pool = <<>> <=> oi_top = <<>>)
    /\ [][ /\ coin_pool # <<>> => coin_pool' # <<>>
           /\ oi_top # <<>> => oi_top' # <<>>
           /\ coin_pool = <<>> =>
                 (coin_pool' # <<>> <=>
                     (AggregateStep /\ \E i \in 1..Len(results) : IsSpike(results[i]))) ]_vars

\* after a scan of three spikes was published, a scan of two symbols has
\* ended without a spike and the three are still listed
C20_Witness ==
    /\ pc = "align"
    /\ out = ScanLog(2, <<>>)
    /\ Len(coin_pool) = 3
    /\ Len(oi_top) = 3

\* the last value the clock takes within MaxTime
LastTick == StartTime + ((MaxTime - StartTime) \div TickSeconds) * TickSeconds

=============================================================================
